---- MODULE Spec2Model ----
(***************************************************************************)
(* Model of the Play Store review analyzer: the classifier adapter         *)
(* (analyze_sentiment), the aggregator (analyze_reviews), the fetch        *)
(* adapter (fetch_app_info / fetch_reviews), the report builder            *)
(* (generate_report / visualize_sentiment) and the dashboard's             *)
(* "Analyze Reviews" handler.                                              *)
(***************************************************************************)
EXTENDS Integers, Sequences, FiniteSets, TLC

\* ------------------------------------------------------------------ bounds
MaxTextLen == 4     \* tokens in one model response (classifier study)
MaxReviews == 2     \* stored reviews (aggregator study)
MaxClock == 2       \* report files written in one behaviour

\* ------------------------------------------------------------------- state
VARIABLES
  app_id,            \* analyzer.app_id
  app_info,          \* analyzer.app_info (None until fetched)
  reviews,           \* analyzer.reviews
  files,             \* reports/<app_id>_report.json, per app identifier
  pc,                \* position inside generate_report / the dashboard handler
  run,               \* who started the last call; the dashboard's settings
  ret,               \* outcome of the last call: returned or raised, and what
  classifier_calls,  \* classifier invocations made by the last call
  upstream_log,      \* outcomes of the store client's calls in the last call
  used,              \* the model responses the last aggregation consumed
  repeat,            \* the last two calls were analyze_reviews with equal responses
  history,           \* reports/analysis_history.json
  now,               \* the clock read by datetime.now()
  chart,             \* the figure drawn by the last call (none if it drew none)
  response_text,     \* classifier study: the model response under study
  judgment           \* classifier study: what analyze_sentiment returned

vars == <<app_id, app_info, reviews, files, pc, run, ret,
          classifier_calls, upstream_log, used, repeat, history, now,
          chart, response_text, judgment>>

\* --------------------------------------------------------- JSON-like values
\* A parsed JSON value, tagged with its Python type.
Str(s)  == [type |-> "str",  str |-> s,  list |-> <<>>]
List(l) == [type |-> "list", str |-> "", list |-> l]
Null    == [type |-> "null", str |-> "", list |-> <<>>]
Num     == [type |-> "num",  str |-> "", list |-> <<>>]

\* Iterating a Python string yields its characters.
Chars(s) == IF s = "ui" THEN <<"u", "i">> ELSE <<>>

\* `for x in v`: a list yields its items, a str its characters; None and
\* numbers are not iterable (TypeError).
Iterable(v) == v.type \in {"list", "str"}
Items(v) == IF v.type = "list" THEN v.list ELSE Chars(v.str)

\* ------------------------------------------------ model responses (tokens)
\* A response text is a sequence of tokens: the two braces, prose, and
\* member lists (what stands between the braces of a JSON object).
Members ==
  [ pos      |-> [sentiment |-> Str("positive"), topics |-> List(<<"ui", "bugs">>),
                  issues |-> List(<<>>), praises |-> List(<<"ui">>)],
    neg      |-> [sentiment |-> Str("negative"), topics |-> List(<<"bugs", "ads">>),
                  issues |-> List(<<"bugs", "bugs">>), praises |-> List(<<>>)],
    mixed    |-> [sentiment |-> Str("mixed"), topics |-> List(<<"ads">>),
                  issues |-> List(<<"ads">>), praises |-> List(<<"ui">>)],
    angry    |-> [sentiment |-> Str("angry"), topics |-> List(<<"ads">>),
                  issues |-> List(<<>>), praises |-> List(<<>>)],
    nokey    |-> [sentiment |-> Str("positive"), topics |-> List(<<"ui">>),
                  issues |-> List(<<>>)],
    nulls    |-> [sentiment |-> Str("neutral"), topics |-> Null,
                  issues |-> List(<<>>), praises |-> List(<<>>)],
    number   |-> [sentiment |-> Str("negative"), topics |-> List(<<"ads">>),
                  issues |-> Num, praises |-> List(<<>>)],
    strtopic |-> [sentiment |-> Str("positive"), topics |-> Str("ui"),
                  issues |-> List(<<>>), praises |-> List(<<>>)],
    listsent |-> [sentiment |-> List(<<"positive">>), topics |-> List(<<>>),
                  issues |-> List(<<>>), praises |-> List(<<>>)] ]

MemberTokens == DOMAIN Members
\* "," stands for a member list that is not well-formed JSON.
Tokens == {"{", "}", "Sure", ","} \cup MemberTokens

TransportError == <<"APIError">>

\* ------------------------------------------------------ classifier adapter
\* str.find / str.rfind, 0-based, -1 when absent.
Find(text, tok) ==
  IF \E i \in 1..Len(text) : text[i] = tok
  THEN (CHOOSE i \in 1..Len(text) :
          text[i] = tok /\ \A j \in 1..(i - 1) : text[j] # tok) - 1
  ELSE -1

RFind(text, tok) ==
  IF \E i \in 1..Len(text) : text[i] = tok
  THEN (CHOOSE i \in 1..Len(text) :
          text[i] = tok /\ \A j \in (i + 1)..Len(text) : text[j] # tok) - 1
  ELSE -1

\* text[start:end] with 0-based start and exclusive end.
Slice(text, start, end) == SubSeq(text, start + 1, end)

\* json.loads on a slice: an object is "{" members "}" or "{}" (the empty
\* dict, a function with an empty domain).
json_loads(s) ==
  IF s = <<"{", "}">>
  THEN [ok |-> TRUE, value |-> <<>>]
  ELSE IF Len(s) = 3 /\ s[1] = "{" /\ s[3] = "}" /\ s[2] \in MemberTokens
  THEN [ok |-> TRUE, value |-> Members[s[2]]]
  ELSE [ok |-> FALSE, value |-> <<>>]

required_keys == {"sentiment", "topics", "issues", "praises"}
valid_sentiments == {"positive", "negative", "neutral", "mixed"}

fallback ==
  [sentiment |-> Str("neutral"), topics |-> List(<<"error">>),
   issues |-> List(<<>>), praises |-> List(<<>>)]

Raise(e) == [ok |-> FALSE, error |-> e, value |-> fallback]
Return(v) == [ok |-> TRUE, error |-> "", value |-> v]

\* Mutant: mixed is passed through.
NormalizeSentimentKeepsMixed(analysis) == analysis

\* mixed is folded into neutral.
NormalizeSentiment(analysis) ==
  IF analysis.sentiment = Str("mixed")
  THEN [analysis EXCEPT !.sentiment = Str("neutral")]
  ELSE analysis

\* Mutant: the sentiment value is not validated.
ValidateKeysOnly(analysis) ==
  IF ~(required_keys \subseteq DOMAIN analysis)
  THEN Raise("Response missing required keys")
  ELSE Return(NormalizeSentiment(analysis))

\* The validation of the parsed object: required keys, sentiment value.
Validate(analysis) ==
  IF ~(required_keys \subseteq DOMAIN analysis)
  THEN Raise("Response missing required keys")
  ELSE IF ~(analysis.sentiment.type = "str" /\ analysis.sentiment.str \in valid_sentiments)
  THEN Raise("Invalid sentiment value")
  ELSE Return(NormalizeSentiment(analysis))

Parse(parsed) ==
  IF ~parsed.ok THEN Raise("JSONDecodeError") ELSE Validate(parsed.value)

\* The text from the first "{" to the last "}", parsed.
Extract(response, start_idx, end_idx) ==
  IF start_idx = -1 \/ end_idx = 0
  THEN Raise("No JSON object found in response")
  ELSE Parse(json_loads(Slice(response, start_idx, end_idx)))

\* The body of the try block of analyze_sentiment.
TryClassify(response) ==
  IF response = TransportError
  THEN Raise("APIError")
  ELSE Extract(response, Find(response, "{"), RFind(response, "}") + 1)

\* The except clause: any exception is turned into the fallback judgment.
Except(r) == IF r.ok THEN r.value ELSE fallback

analyze_sentiment(response) == Except(TryClassify(response))

\* -------------------------------------------------------------- aggregator
\* A frequency table is a Python dict: label/count pairs in insertion order.
Index(table, label) ==
  IF \E i \in 1..Len(table) : table[i].label = label
  THEN CHOOSE i \in 1..Len(table) : table[i].label = label
  ELSE 0

\* Mutant: a label already in the table is not counted again.
IncrementOnce(table, label) ==
  IF Index(table, label) = 0
  THEN Append(table, [label |-> label, count |-> 1])
  ELSE table

\* table[label] = table.get(label, 0) + 1
Increment(table, label) ==
  LET i == Index(table, label)
  IN IF i = 0
     THEN Append(table, [label |-> label, count |-> 1])
     ELSE [table EXCEPT ![i].count = @ + 1]

RECURSIVE CountLabels(_, _)
CountLabels(table, items) ==
  IF items = <<>>
  THEN table
  ELSE CountLabels(Increment(table, Head(items)), Tail(items))

RemoveAt(s, i) == SubSeq(s, 1, i - 1) \o SubSeq(s, i + 1, Len(s))

\* Mutant: sorted ascending and then reversed, which reverses the ties.
RECURSIVE SortByFrequencyReversed(_)
SortByFrequencyReversed(table) ==
  IF table = <<>>
  THEN <<>>
  ELSE LET i == CHOOSE k \in 1..Len(table) :
                  /\ \A j \in 1..Len(table) : table[j].count <= table[k].count
                  /\ \A j \in (k + 1)..Len(table) : table[j].count < table[k].count
       IN <<table[i]>> \o SortByFrequencyReversed(RemoveAt(table, i))

\* sorted(items, key=count, reverse=True): descending and stable, so among
\* equal counts the earlier item stays first.
RECURSIVE SortByFrequency(_)
SortByFrequency(table) ==
  IF table = <<>>
  THEN <<>>
  ELSE LET i == CHOOSE k \in 1..Len(table) :
                  /\ \A j \in 1..Len(table) : table[j].count <= table[k].count
                  /\ \A j \in 1..(k - 1) : table[j].count < table[k].count
       IN <<table[i]>> \o SortByFrequency(RemoveAt(table, i))

RECURSIVE SumScores(_)
SumScores(rs) == IF rs = <<>> THEN 0 ELSE Head(rs).score + SumScores(Tail(rs))

\* Mutant: every star rating gets a key, the absent ones with count 0.
value_counts_all(rs) ==
  [s \in 1..5 |-> Cardinality({i \in 1..Len(rs) : rs[i].score = s})]

\* reviews_df['score'].value_counts().to_dict()
value_counts(rs) ==
  [s \in {rs[i].score : i \in 1..Len(rs)} |->
     Cardinality({i \in 1..Len(rs) : rs[i].score = s})]

\* The placeholder where a call returned no statistics.
NoStats ==
  [total_reviews |-> 0,
   average_rating |-> [num |-> 0, den |-> 0],
   rating_distribution |-> <<>>,
   sentiment_distribution |-> [positive |-> 0, neutral |-> 0, negative |-> 0],
   common_topics |-> <<>>,
   common_issues |-> <<>>,
   common_praises |-> <<>>]

\* Mutant: the sentiment counters are shared between calls.
InitialStatsShared(rs) ==
  [total_reviews |-> Len(rs),
   average_rating |-> [num |-> SumScores(rs), den |-> Len(rs)],
   rating_distribution |-> value_counts(rs),
   sentiment_distribution |-> ret.stats.sentiment_distribution,
   common_topics |-> <<>>,
   common_issues |-> <<>>,
   common_praises |-> <<>>]

\* The stats dict before the loop. The mean is kept as an exact fraction.
InitialStats(rs) ==
  [total_reviews |-> Len(rs),
   average_rating |-> [num |-> SumScores(rs), den |-> Len(rs)],
   rating_distribution |-> value_counts(rs),
   sentiment_distribution |-> [positive |-> 0, neutral |-> 0, negative |-> 0],
   common_topics |-> <<>>,
   common_issues |-> <<>>,
   common_praises |-> <<>>]


\* Mutant: a judgment that is the fallback is not counted.
FoldJudgmentSkipsFallback(stats, analysis) ==
  IF analysis = fallback
  THEN [ok |-> TRUE, stats |-> stats]
  ELSE [ok |-> Iterable(analysis.topics) /\ Iterable(analysis.issues)
                 /\ Iterable(analysis.praises),
        stats |-> [stats EXCEPT !.sentiment_distribution[analysis.sentiment.str] = @ + 1]]

\* One iteration of the loop body, given the judgment of the review.
FoldJudgment(stats, analysis) ==
  LET s1 == [stats EXCEPT !.sentiment_distribution[analysis.sentiment.str] = @ + 1]
  IN IF ~Iterable(analysis.topics) \/ ~Iterable(analysis.issues)
        \/ ~Iterable(analysis.praises)
     THEN [ok |-> FALSE, stats |-> s1]
     ELSE [ok |-> TRUE,
           stats |-> [s1 EXCEPT
             !.common_topics  = CountLabels(@, Items(analysis.topics)),
             !.common_issues  = CountLabels(@, Items(analysis.issues)),
             !.common_praises = CountLabels(@, Items(analysis.praises))]]

SortTables(stats) ==
  [stats EXCEPT !.common_topics  = SortByFrequency(@),
                !.common_issues  = SortByFrequency(@),
                !.common_praises = SortByFrequency(@)]

\* The loop over the reviews from position i on; calls counts the classifier
\* invocations made so far. An exception of the loop body ends the call.
RECURSIVE Loop(_, _, _, _)
Continue(rs, resp, i, calls, step) ==
  IF ~step.ok
  THEN [ok |-> FALSE, error |-> "TypeError: not iterable", stats |-> NoStats,
        calls |-> calls]
  ELSE Loop(rs, resp, i + 1, [stats |-> step.stats, calls |-> calls])

Loop(rs, resp, i, acc) ==
  IF i > Len(rs)
  THEN [ok |-> TRUE, error |-> "", stats |-> SortTables(acc.stats), calls |-> acc.calls]
  ELSE Continue(rs, resp, i, acc.calls + 1,
                FoldJudgment(acc.stats, analyze_sentiment(resp[i])))

\* Mutant: the guard on the empty collection is missing.
AggregateUnguarded(rs, resp) ==
  Loop(rs, resp, 1, [stats |-> InitialStats(rs), calls |-> 0])

\* analyze_reviews on the stored list rs, the classifier answering resp[i] for
\* the i-th review: the outcome (returned or raised), the statistics and the
\* number of classifier calls made.
Aggregate(rs, resp) ==
  IF rs = <<>>
  THEN [ok |-> FALSE, error |-> "ValueError: fetch reviews first",
        stats |-> NoStats, calls |-> 0]
  ELSE Loop(rs, resp, 1, [stats |-> InitialStats(rs), calls |-> 0])

\* -------------------------------------------------------- state, continued
analyzer == <<app_id, app_info, reviews>>
study == <<response_text, judgment>>

AppIds == {"com.a", "com.b"}
Title(a) == IF a = "com.a" THEN "App A" ELSE "App B"

None == [fetched |-> FALSE, title |-> ""]
Info(a) == [fetched |-> TRUE, title |-> Title(a)]

\* datetime.now().isoformat() and .strftime('%Y-%m-%d %H:%M:%S'): two
\* different texts for one instant.
isoformat(t) == [fmt |-> "iso", t |-> t]
strftime(t) == [fmt |-> "ymd_hms", t |-> t]

\* A figure: the bars of the sentiment plot.
NoChart == [drawn |-> FALSE,
            sentiment |-> [positive |-> 0, neutral |-> 0, negative |-> 0]]
Figure(sentiment_distribution) == [drawn |-> TRUE, sentiment |-> sentiment_distribution]

NoFile == [exists |-> FALSE, title |-> "", analysis |-> NoStats,
           generated_at |-> isoformat(0)]

\* A direct method call, or a click with its analysis type and review count.
Direct == [caller |-> "direct", mode |-> "", review_count |-> 0]
Click(type, n) == [caller |-> "frontend", mode |-> type, review_count |-> n]

Outcome(op, ok, error, stats) ==
  [op |-> op, ok |-> ok, error |-> error, stats |-> stats]

\* ------------------------------------------------------------ environment
\* What the store holds and what the model answers in the whole-program
\* specification; the studies below draw from richer sets.
Bad2   == [content |-> "bad", score |-> 2]
Great5 == [content |-> "great", score |-> 5]
StoreReviews == {Bad2, Great5}

\* The default of fetch_reviews(count=100), which is also the default of the
\* dashboard's two sliders, scaled down to a store of a few reviews.
DefaultCount == 1
ReviewCounts == {DefaultCount}
NegativeCounts == {DefaultCount}
\* "Negative Reviews Only" keeps the reviews of at most this score.
NegativeMaxScore == 3

\* reviews(app_id, count=count): at most count reviews, or an error.
Listings(count) == UNION {[1..k -> StoreReviews] : k \in 0..count}

MainResponses == {<<"{", "pos", "}">>, <<"Sure">>, <<"{", "nulls", "}">>}
Answers(R, rs) == [1..Len(rs) -> R]

\* --------------------------------------------------------------- analyzer
\* PlayStoreReviewAnalyzer(app_id)
NewAnalyzer(a) ==
  /\ repeat' = FALSE
  /\ pc = "idle"
  /\ app_id' = a
  /\ reviews' = <<>>
  /\ app_info' = None
  /\ ret' = Outcome("__init__", TRUE, "", NoStats)
  /\ run' = Direct
  /\ classifier_calls' = 0
  /\ chart' = NoChart
  /\ upstream_log' = <<>>
  /\ used' = <<>>
  /\ UNCHANGED <<files, pc, study, history, now>>

\* fetch_app_info(): one call of app(); its failure is re-raised.
fetch_app_info ==
  /\ repeat' = FALSE
  /\ pc = "idle"
  /\ \E up \in {"ok", "error"} :
       /\ upstream_log' = <<up>>
       /\ IF up = "ok"
          THEN /\ app_info' = Info(app_id)
               /\ ret' = Outcome("fetch_app_info", TRUE, "", NoStats)
          ELSE /\ app_info' = app_info
               /\ ret' = Outcome("fetch_app_info", FALSE, "Error fetching app info", NoStats)
  /\ run' = Direct
  /\ classifier_calls' = 0
  /\ chart' = NoChart
  /\ used' = <<>>
  /\ UNCHANGED <<app_id, reviews, files, pc, study, history, now>>

\* Mutant: a failed call is answered with an empty list.
fetch_reviews_swallowing ==
  /\ repeat' = FALSE
  /\ pc = "idle"
  /\ \E count \in ReviewCounts :
       \/ \E reviews_result \in Listings(count) :
            /\ upstream_log' = <<"ok">>
            /\ reviews' = reviews_result
       \/ /\ upstream_log' = <<"error">>
          /\ reviews' = <<>>
  /\ ret' = Outcome("fetch_reviews", TRUE, "", NoStats)
  /\ run' = Direct
  /\ classifier_calls' = 0
  /\ chart' = NoChart
  /\ used' = <<>>
  /\ UNCHANGED <<app_id, app_info, files, pc, study, history, now>>

\* Mutant: the stored list is emptied before the store is called.
fetch_reviews_clearing ==
  /\ repeat' = FALSE
  /\ pc = "idle"
  /\ \E count \in ReviewCounts :
       \/ \E reviews_result \in Listings(count) :
            /\ upstream_log' = <<"ok">>
            /\ reviews' = reviews_result
            /\ ret' = Outcome("fetch_reviews", TRUE, "", NoStats)
       \/ /\ upstream_log' = <<"error">>
          /\ reviews' = <<>>
          /\ ret' = Outcome("fetch_reviews", FALSE, "Error fetching reviews", NoStats)
  /\ run' = Direct
  /\ classifier_calls' = 0
  /\ chart' = NoChart
  /\ used' = <<>>
  /\ UNCHANGED <<app_id, app_info, files, pc, study, history, now>>

\* fetch_reviews(count): one call of reviews(); its failure is re-raised.
fetch_reviews ==
  /\ repeat' = FALSE
  /\ pc = "idle"
  /\ \E count \in ReviewCounts :
       \/ \E reviews_result \in Listings(count) :
            /\ upstream_log' = <<"ok">>
            /\ reviews' = reviews_result
            /\ ret' = Outcome("fetch_reviews", TRUE, "", NoStats)
       \/ /\ upstream_log' = <<"error">>
          /\ reviews' = reviews
          /\ ret' = Outcome("fetch_reviews", FALSE, "Error fetching reviews", NoStats)
  /\ run' = Direct
  /\ classifier_calls' = 0
  /\ chart' = NoChart
  /\ used' = <<>>
  /\ UNCHANGED <<app_id, app_info, files, pc, study, history, now>>

\* analyze_reviews(), the classifier answering resp.
Analyzed(resp, r) ==
  /\ repeat' = (ret.op = "analyze_reviews" /\ used = resp)
  /\ ret' = Outcome("analyze_reviews", r.ok, r.error, r.stats)
  /\ classifier_calls' = r.calls
  /\ used' = resp
  /\ chart' = NoChart

AnalyzeReviewsWith(resp) ==
  /\ pc = "idle"
  /\ Analyzed(resp, Aggregate(reviews, resp))
  /\ run' = Direct
  /\ upstream_log' = <<>>
  /\ UNCHANGED <<analyzer, files, pc, study, history, now>>

analyze_reviews == \E resp \in Answers(MainResponses, reviews) : AnalyzeReviewsWith(resp)

\* ---------------------------------------------------------- report builder
\* The report dict built from app_info, the analysis and the time.
BuildReport(info, stats, t) ==
  [exists |-> TRUE, title |-> info.title, analysis |-> stats,
   generated_at |-> isoformat(t)]

\* Mutant: the new tables are merged into those of the old file.
WriteReportMerging(old, report) ==
  IF old.exists
  THEN [report EXCEPT !.analysis.common_topics = old.analysis.common_topics \o @]
  ELSE report

\* open(report_path, 'w') and json.dump: the old content is dropped.
WriteReport(old, report) == report

FetchedReviews(count) ==
  {[ok |-> TRUE, list |-> l] : l \in Listings(count)} \cup {[ok |-> FALSE, list |-> <<>>]}

\* Mutant: with nothing fetched the call raises instead of fetching.
GenerateStartGuarded(who) ==
  /\ repeat' = FALSE
  /\ run' = who
  /\ classifier_calls' = 0
  /\ chart' = NoChart
  /\ used' = <<>>
  /\ upstream_log' = <<>>
  /\ IF reviews = <<>>
     THEN /\ ret' = Outcome("generate_report", FALSE,
                            "ValueError: fetch reviews first", NoStats)
          /\ pc' = "idle"
     ELSE /\ ret' = Outcome("generate_report", TRUE, "", NoStats)
          /\ pc' = "gr_analyze"
  /\ UNCHANGED <<analyzer, files, study, history, now>>

\* generate_report up to the analysis: fetch whatever is missing.
GenerateStart(who) ==
  /\ repeat' = FALSE
  /\ run' = who
  /\ classifier_calls' = 0
  /\ chart' = NoChart
  /\ used' = <<>>
  /\ \E up \in (IF app_info.fetched THEN {"skip"} ELSE {"ok", "error"}) :
       IF up = "error"
       THEN /\ upstream_log' = <<"error">>
            /\ ret' = Outcome("generate_report", FALSE, "Error fetching app info", NoStats)
            /\ pc' = "idle"
            /\ UNCHANGED <<app_info, reviews>>
       ELSE
         /\ app_info' = IF up = "ok" THEN Info(app_id) ELSE app_info
         /\ \E got \in (IF reviews = <<>> THEN FetchedReviews(DefaultCount)
                                        ELSE {[ok |-> TRUE, list |-> reviews]}) :
              /\ upstream_log' = (IF up = "ok" THEN <<"ok">> ELSE <<>>)
                    \o (IF reviews # <<>> THEN <<>>
                        ELSE IF got.ok THEN <<"ok">> ELSE <<"error">>)
              /\ IF got.ok
                 THEN /\ reviews' = got.list
                      /\ ret' = Outcome("generate_report", TRUE, "", NoStats)
                      /\ pc' = "gr_analyze"
                 ELSE /\ reviews' = reviews
                      /\ ret' = Outcome("generate_report", FALSE,
                                        "Error fetching reviews", NoStats)
                      /\ pc' = "idle"
  /\ UNCHANGED <<app_id, files, study, history, now>>

generate_report ==
  /\ pc = "idle"
  /\ GenerateStart(Direct)

\* generate_report: the analysis and the write of <app_id>_report.json.
Persist(resp, r) ==
  /\ used' = resp
  /\ classifier_calls' = classifier_calls + r.calls
  /\ IF r.ok
     THEN /\ files' = [files EXCEPT
                         ![app_id] = WriteReport(@, BuildReport(app_info, r.stats, now))]
          /\ now' = now + 1
          /\ ret' = Outcome("generate_report", TRUE, "", r.stats)
          /\ pc' = "viz_keys"
     ELSE /\ files' = files
          /\ now' = now
          /\ ret' = Outcome("generate_report", FALSE, r.error, NoStats)
          /\ pc' = "idle"

GenerateAnalyze ==
  /\ repeat' = FALSE
  /\ pc = "gr_analyze"
  /\ now < MaxClock
  /\ \E resp \in Answers(MainResponses, reviews) : Persist(resp, Aggregate(reviews, resp))
  /\ UNCHANGED <<analyzer, run, upstream_log, study, history, chart>>

\* visualize_sentiment up to the first analyze_reviews() of the chart data
\* (the 'Sentiment' column).
ChartKeys(op, stats, calls, resp, r) ==
  /\ used' = resp
  /\ classifier_calls' = calls + r.calls
  /\ IF r.ok
     THEN /\ ret' = Outcome(op, TRUE, "", stats)
          /\ pc' = "viz_counts"
     ELSE /\ ret' = Outcome(op, FALSE, r.error, NoStats)
          /\ pc' = "idle"

VisualizeKeys(op, stats, calls) ==
  /\ repeat' = FALSE
  /\ chart' = NoChart
  /\ IF reviews = <<>>
     THEN /\ ret' = Outcome(op, FALSE, "ValueError: fetch reviews first", NoStats)
          /\ pc' = "idle"
          /\ classifier_calls' = calls
          /\ used' = <<>>
     ELSE IF ~app_info.fetched
     THEN /\ ret' = Outcome(op, FALSE, "TypeError: app_info is None", NoStats)
          /\ pc' = "idle"
          /\ classifier_calls' = calls
          /\ used' = <<>>
     ELSE \E resp \in Answers(MainResponses, reviews) :
            ChartKeys(op, stats, calls, resp, Aggregate(reviews, resp))
  /\ UNCHANGED <<analyzer, files, study, history, now>>

visualize_sentiment ==
  /\ pc = "idle"
  /\ run' = Direct
  /\ upstream_log' = <<>>
  /\ VisualizeKeys("visualize_sentiment", NoStats, 0)

GenerateVisualize ==
  /\ pc = "viz_keys"
  /\ run' = run
  /\ upstream_log' = upstream_log
  /\ VisualizeKeys("generate_report", ret.stats, classifier_calls)

\* get_analysis_history(): one entry per *_report.json file, newest first
\* (the files' dates are distinct, so the order is that of the dates).
RECURSIVE SortByDate(_)
SortByDate(entries) ==
  IF entries = {}
  THEN <<>>
  ELSE LET e == CHOOSE x \in entries : \A y \in entries : y.date.t <= x.date.t
       IN <<e>> \o SortByDate(entries \ {e})

get_analysis_history(fs) ==
  SortByDate({[app_id |-> a, app_name |-> fs[a].title, date |-> fs[a].generated_at] :
                a \in {x \in AppIds : fs[x].exists}})

\* save_history(history): the file is opened in 'w' mode and rewritten.
save_history(old, list) == list

\* The handler's "Save to history": the list rebuilt from the report files,
\* plus the entry of this run, replaces the history file.
SaveToHistory(fs, a, info, t) ==
  save_history(history,
    Append(get_analysis_history(fs),
           [app_id |-> a, app_name |-> info.title, date |-> strftime(t),
            report_path |-> a]))

\* visualize_sentiment: the second analyze_reviews() (the 'Count' column),
\* the plot, and the return to the caller. The 'Sentiment' column of the
\* first call is always positive, neutral, negative, in the order of the
\* initial dict, so the bars carry the counts of this call.
ChartCounts(resp, r) ==
  /\ chart' = IF r.ok THEN Figure(r.stats.sentiment_distribution) ELSE NoChart
  /\ used' = resp
  /\ classifier_calls' = classifier_calls + r.calls
  /\ ret' = IF r.ok THEN ret ELSE Outcome(ret.op, FALSE, r.error, NoStats)
  /\ history' = IF r.ok /\ run.caller = "frontend"
                THEN SaveToHistory(files, app_id, app_info, now)
                ELSE history

VisualizeCounts ==
  /\ repeat' = FALSE
  /\ pc = "viz_counts"
  /\ \E resp \in Answers(MainResponses, reviews) : ChartCounts(resp, Aggregate(reviews, resp))
  /\ pc' = "idle"
  /\ UNCHANGED <<analyzer, files, run, upstream_log, study, now>>

\* --------------------------------------------------------------- dashboard
Negative(rs) == SelectSeq(rs, LAMBDA r : r.score <= NegativeMaxScore)

\* The "Analyze Reviews" button: a new analyzer, both fetches, the filter.
AnalyzeClicked(a, type, n) ==
  /\ repeat' = FALSE
  /\ pc = "idle"
  /\ app_id' = a
  /\ run' = Click(type, n)
  /\ classifier_calls' = 0
  /\ chart' = NoChart
  /\ used' = <<>>
  /\ \E up \in {"ok", "error"} :
       IF up = "error"
       THEN /\ upstream_log' = <<"error">>
            /\ app_info' = None
            /\ reviews' = <<>>
            /\ ret' = Outcome("dashboard", FALSE, "Error fetching app info", NoStats)
            /\ pc' = "idle"
       ELSE
         /\ app_info' = Info(a)
         /\ \E got \in FetchedReviews(IF type = "Negative Reviews Only" THEN n * 2 ELSE n) :
              IF got.ok
              THEN /\ upstream_log' = <<"ok", "ok">>
                   /\ reviews' = IF type = "Negative Reviews Only"
                                 THEN Negative(got.list) ELSE got.list
                   /\ ret' = Outcome("dashboard", TRUE, "", NoStats)
                   /\ pc' = "fe_generate"
              ELSE /\ upstream_log' = <<"ok", "error">>
                   /\ reviews' = <<>>
                   /\ ret' = Outcome("dashboard", FALSE, "Error fetching reviews", NoStats)
                   /\ pc' = "idle"
  /\ UNCHANGED <<files, study, history, now>>

AnalyzeAll == \E a \in AppIds, n \in ReviewCounts : AnalyzeClicked(a, "All Reviews", n)
AnalyzeNegative ==
  \E a \in AppIds, n \in NegativeCounts : AnalyzeClicked(a, "Negative Reviews Only", n)

\* The handler's call of analyzer.generate_report().
DashboardGenerate ==
  /\ pc = "fe_generate"
  /\ GenerateStart(run)

\* The "Clear History" button: every *_report.json file is removed.
clear_history ==
  /\ pc = "idle"
  /\ \E a \in AppIds : files[a].exists
  /\ files' = [a \in AppIds |-> NoFile]
  /\ ret' = Outcome("clear_history", TRUE, "", NoStats)
  /\ run' = [caller |-> "frontend", mode |-> "", review_count |-> 0]
  /\ repeat' = FALSE
  /\ classifier_calls' = 0
  /\ chart' = NoChart
  /\ upstream_log' = <<>>
  /\ used' = <<>>
  /\ UNCHANGED <<analyzer, pc, study, history, now>>

\* ------------------------------------------------------------ specification
Init ==
  /\ app_id \in AppIds
  /\ app_info = None
  /\ reviews = <<>>
  /\ files = [a \in AppIds |-> NoFile]
  /\ pc = "idle"
  /\ run = Direct
  /\ ret = Outcome("__init__", TRUE, "", NoStats)
  /\ classifier_calls = 0
  /\ upstream_log = <<>>
  /\ used = <<>>
  /\ repeat = FALSE
  /\ history = <<>>
  /\ now = 0
  /\ chart = NoChart
  /\ response_text = <<>>
  /\ judgment = [done |-> FALSE, value |-> fallback]

Next ==
  \/ \E a \in AppIds : NewAnalyzer(a)
  \/ fetch_app_info
  \/ fetch_reviews
  \/ analyze_reviews
  \/ visualize_sentiment
  \/ generate_report
  \/ GenerateAnalyze
  \/ GenerateVisualize
  \/ VisualizeCounts

\* The analyzer used as a library: any sequence of method calls.
Spec == Init /\ [][Next]_vars

\* ---------------------------------------------------------------- dashboard
\* The dashboard: each click of "Analyze Reviews" builds an analyzer of its
\* own, local to the handler, and runs it to the end; the report files and
\* the history file stay on disk between the clicks.
NextDashboard ==
  \/ AnalyzeAll
  \/ AnalyzeNegative
  \/ DashboardGenerate
  \/ GenerateAnalyze
  \/ GenerateVisualize
  \/ VisualizeCounts
  \/ clear_history

SpecDashboard == Init /\ [][NextDashboard]_vars

\* --------------------------------------------------------- classifier study
\* analyze_sentiment applied to every response of at most MaxTextLen tokens.
StudyTexts == UNION {[1..k -> Tokens] : k \in 0..MaxTextLen}

Idle ==
  /\ app_info = None
  /\ files = [a \in AppIds |-> NoFile]
  /\ pc = "idle"
  /\ run = Direct
  /\ ret = Outcome("__init__", TRUE, "", NoStats)
  /\ classifier_calls = 0
  /\ upstream_log = <<>>
  /\ used = <<>>
  /\ repeat = FALSE
  /\ history = <<>>
  /\ now = 0
  /\ chart = NoChart

InitClassify ==
  /\ Idle
  /\ app_id = "com.a"
  /\ reviews = <<>>
  /\ response_text \in StudyTexts \cup {TransportError}
  /\ judgment = [done |-> FALSE, value |-> fallback]

Classify ==
  /\ ~judgment.done
  /\ judgment' = [done |-> TRUE, value |-> analyze_sentiment(response_text)]
  /\ UNCHANGED <<analyzer, files, pc, run, ret, classifier_calls, upstream_log,
                 used, repeat, history, now, chart, response_text>>

SpecClassify == InitClassify /\ [][Classify]_vars

\* --------------------------------------------------------- aggregator study
\* analyze_reviews on every stored list of at most MaxReviews reviews, the
\* classifier answering freely.
StudyReviews == {[content |-> "great", score |-> 5],
                 [content |-> "bad", score |-> 1],
                 [content |-> "bad", score |-> 2]}
StudyLists == UNION {[1..k -> StudyReviews] : k \in 0..MaxReviews}
StudyResponses == {<<"Sure">>, <<"{", "pos", "}">>, <<"{", "neg", "}">>,
                   <<"Sure", "{", "mixed", "}">>, <<"{", "nulls", "}">>}

InitAggregate ==
  /\ Idle
  /\ app_id = "com.a"
  /\ reviews \in StudyLists
  /\ response_text = <<>>
  /\ judgment = [done |-> FALSE, value |-> fallback]

AnalyzeStudy == \E resp \in Answers(StudyResponses, reviews) : AnalyzeReviewsWith(resp)

SpecAggregate == InitAggregate /\ [][AnalyzeStudy]_vars

\* ================================================================== claims

\* C1: whatever the model answers (transport failure included), the judgment
\* analyze_sentiment returns has sentiment positive, negative or neutral; it
\* is never "mixed" nor any other value.
C1_SentimentInRange ==
  judgment.done =>
    judgment.value.sentiment \in {Str("positive"), Str("negative"), Str("neutral")}

\* The model answered "mixed" inside prose and the judgment says neutral.
C1_Witness ==
  /\ judgment.done
  /\ response_text = <<"Sure", "{", "mixed", "}">>
  /\ judgment.value.sentiment = Str("neutral")

\* The response holds an object "{" members "}" at k, no "{" before it and
\* no "}" after it.
Braced(text, k) ==
  /\ k + 2 <= Len(text)
  /\ text[k] = "{" /\ text[k + 2] = "}" /\ text[k + 1] \in MemberTokens
  /\ \A j \in 1..(k - 1) : text[j] # "{"
  /\ \A j \in (k + 3)..Len(text) : text[j] # "}"

\* A classification failure, stated on the response itself: transport error,
\* no well-formed object from the first "{" to the last "}", a missing key,
\* a sentiment outside the four.
ClassificationFailure(text) ==
  \/ text = TransportError
  \/ ~\E k \in 1..Len(text) : Braced(text, k)
  \/ \E k \in 1..Len(text) :
       /\ Braced(text, k)
       /\ \/ ~(required_keys \subseteq DOMAIN Members[text[k + 1]])
          \/ Members[text[k + 1]].sentiment \notin {Str(v) : v \in valid_sentiments}

\* C2: on any classification failure analyze_sentiment returns exactly the
\* fallback judgment {neutral, ["error"], [], []}.
C2_FailureGivesFallback ==
  (judgment.done /\ ClassificationFailure(response_text)) => judgment.value = fallback

\* An object with all keys and an unknown sentiment was answered with the
\* fallback.
C2_Witness ==
  /\ judgment.done
  /\ response_text = <<"{", "angry", "}">>
  /\ judgment.value = fallback

Distribution(stats) ==
  /\ DOMAIN stats.sentiment_distribution = {"positive", "neutral", "negative"}
  /\ stats.sentiment_distribution.positive + stats.sentiment_distribution.neutral
       + stats.sentiment_distribution.negative = stats.total_reviews

\* C3: in every statistics record analyze_reviews returns and in every
\* persisted report, positive, neutral and negative are all present in
\* sentiment_distribution and their values sum to total_reviews.
C3_SentimentSum ==
  /\ (ret.op \in {"analyze_reviews", "generate_report"} /\ ret.ok) => Distribution(ret.stats)
  /\ \A a \in AppIds : files[a].exists => Distribution(files[a].analysis)

\* A report of two reviews, one judged positive and one given the fallback,
\* is persisted and generate_report has returned.
C3_Witness ==
  /\ pc = "idle" /\ ret.op = "generate_report" /\ ret.ok
  /\ files[app_id].exists /\ files[app_id].analysis = ret.stats
  /\ ret.stats.total_reviews = 2
  /\ ret.stats.sentiment_distribution.positive = 1
  /\ ret.stats.sentiment_distribution.neutral = 1

\* The labels of one kind in the order the judgments returned them.
RECURSIVE Seen(_, _, _)
Seen(key, resp, n) ==
  IF n = 0 THEN <<>>
  ELSE Seen(key, resp, n - 1) \o Items(analyze_sentiment(resp[n])[key])

Descending(table) ==
  \A i \in 1..(Len(table) - 1) : table[i].count >= table[i + 1].count

TiesInFirstSeenOrder(table, seen) ==
  \A i, j \in 1..Len(table) :
    (i < j /\ table[i].count = table[j].count)
      => Find(seen, table[i].label) < Find(seen, table[j].label)

Ordered(table, seen) == Descending(table) /\ TiesInFirstSeenOrder(table, seen)

\* C4: each of common_topics, common_issues, common_praises is in descending
\* order of count, equal counts in the order the labels were first seen.
C4_TablesOrdered ==
  (ret.op = "analyze_reviews" /\ ret.ok) =>
    /\ Ordered(ret.stats.common_topics, Seen("topics", used, Len(used)))
    /\ Ordered(ret.stats.common_issues, Seen("issues", used, Len(used)))
    /\ Ordered(ret.stats.common_praises, Seen("praises", used, Len(used)))

\* ui and bugs, then bugs and ads: bugs moves to the front, ui stays before
\* ads.
C4_Witness ==
  /\ ret.op = "analyze_reviews" /\ ret.ok
  /\ ret.stats.common_topics = <<[label |-> "bugs", count |-> 2],
                                 [label |-> "ui", count |-> 1],
                                 [label |-> "ads", count |-> 1]>>

\* C5: analyze_reviews on an empty review collection raises the
\* precondition error, invokes the classifier not once and changes nothing
\* of the analyzer nor of the reports.
C5_EmptyRaises ==
  [][(reviews = <<>> /\ ((pc = "idle" /\ ret'.op = "analyze_reviews") \/ pc = "gr_analyze"))
       => /\ ~ret'.ok
          /\ ret'.error = "ValueError: fetch reviews first"
          /\ classifier_calls' = 0
          /\ pc' = "idle"
          /\ UNCHANGED <<app_id, app_info, reviews, files>>]_vars

\* analyze_reviews was called on an analyzer that never fetched.
C5_Witness ==
  /\ ret.op = "analyze_reviews" /\ reviews = <<>> /\ ~app_info.fetched
  /\ ~ret.ok /\ ret.error = "ValueError: fetch reviews first"

\* C6: a generate_report run leaves at <app_id>_report.json exactly the
\* report of that run (nothing of the earlier content) and leaves the report
\* of every other app identifier as it was; after a successful run the file
\* holds that run's analysis.
C6_ReportOverwritten ==
  /\ [][(pc = "gr_analyze" /\ pc' = "viz_keys")
          => /\ files'[app_id] = [exists |-> TRUE, title |-> app_info.title,
                                  analysis |-> ret'.stats,
                                  generated_at |-> isoformat(now)]
             /\ \A a \in AppIds \ {app_id} : files'[a] = files[a]]_vars
  /\ []((pc = "idle" /\ ret.op = "generate_report" /\ ret.ok)
          => (files[app_id].exists /\ files[app_id].analysis = ret.stats))

\* A run for one app has just succeeded while the other app's report, of
\* different content, is on disk.
C6_Witness ==
  /\ pc = "idle" /\ ret.op = "generate_report" /\ ret.ok
  /\ \E a \in AppIds \ {app_id} :
       /\ files[a].exists
       /\ files[a].analysis # files[app_id].analysis
       /\ files[a].analysis.common_topics # <<>>
  /\ files[app_id].analysis.common_topics # <<>>

\* C7: two consecutive analyze_reviews calls on the same stored list that get
\* the same answers from the classifier return identical statistics, and the
\* call leaves the stored reviews and app_info unchanged.
C7_AggregateIdempotent ==
  [][(ret'.op = "analyze_reviews" /\ pc = "idle")
       => /\ reviews' = reviews /\ app_info' = app_info
          /\ (ret.op = "analyze_reviews" /\ used' = used) => ret' = ret]_vars

\* The same text always got the same answer.
Deterministic(rs, resp) ==
  \A i, j \in 1..Len(rs) : rs[i].content = rs[j].content => resp[i] = resp[j]

\* A second call on a list with a repeated text, with the answers of the
\* first, has returned statistics.
C7_Witness ==
  /\ repeat /\ ret.op = "analyze_reviews" /\ ret.ok
  /\ Len(reviews) = 2 /\ reviews[1].content = reviews[2].content
  /\ reviews[1].score # reviews[2].score
  /\ Deterministic(reviews, used)
  /\ ret.stats.common_topics # <<>>

\* C8 (as claimed): for every non-empty review list and every combination of
\* model responses analyze_reviews classifies every review and returns
\* statistics.
C8_BatchNeverAborts ==
  (ret.op = "analyze_reviews" /\ reviews # <<>>)
    => (ret.ok /\ classifier_calls = Len(reviews))

\* C9: fetch_app_info and fetch_reviews call the store client exactly once;
\* when that call fails the method raises its fetch error.
C9_FetchFailurePropagates ==
  ret.op \in {"fetch_app_info", "fetch_reviews"} =>
    /\ Len(upstream_log) = 1
    /\ upstream_log[1] = "error" =>
         /\ ~ret.ok
         /\ ret.error = (IF ret.op = "fetch_app_info" THEN "Error fetching app info"
                                                     ELSE "Error fetching reviews")

\* fetch_reviews has raised after its one failed call, the earlier reviews
\* still stored.
C9_Witness ==
  /\ ret.op = "fetch_reviews" /\ ~ret.ok
  /\ upstream_log = <<"error">>
  /\ reviews # <<>>

\* C10 (as claimed): in a "Negative Reviews Only" run of the dashboard every
\* review folded into the persisted report has score <= 3.
C10_NegativeOnly ==
  (/\ run.caller = "frontend" /\ run.mode = "Negative Reviews Only"
   /\ ret.op = "generate_report" /\ ret.ok
   /\ pc \in {"viz_keys", "viz_counts", "idle"})
    => \A i \in 1..Len(reviews) : reviews[i].score <= NegativeMaxScore

\* C11 (as claimed): analysis_history.json is append-only: every entry that
\* is in the file before a successful dashboard run saves its history is in
\* the file, unchanged, after the save.
C11_HistoryAppendOnly ==
  [][(pc = "viz_counts" /\ run.caller = "frontend" /\ ret'.ok)
       => \A i \in 1..Len(history) : \E j \in 1..Len(history') :
            history'[j] = history[i]]_vars

\* C12 (as claimed): visualize_sentiment or generate_report called on an
\* analyzer whose review collection is empty raises the "fetch reviews
\* first" error at once.
C12_ReportingRaisesWhenEmpty ==
  [][(pc = "idle" /\ reviews = <<>>
        /\ ret'.op \in {"visualize_sentiment", "generate_report"})
       => (pc' = "idle" /\ ~ret'.ok
             /\ ret'.error = "ValueError: fetch reviews first")]_vars

\* C12 (amended): visualize_sentiment on an empty collection raises "fetch
\* reviews first" without classifying or writing anything; generate_report
\* on an empty collection calls the store for the reviews instead: it raises
\* the fetch error if that call fails, goes on to the analysis with the
\* fetched list otherwise, and raises "fetch reviews first", writing no
\* report, only when the fetched list is empty as well.
C12_Amended ==
  /\ [][(pc = "idle" /\ reviews = <<>> /\ ret'.op = "visualize_sentiment")
          => (pc' = "idle" /\ ~ret'.ok
                /\ ret'.error = "ValueError: fetch reviews first"
                /\ classifier_calls' = 0 /\ files' = files)]_vars
  /\ [][(pc = "idle" /\ reviews = <<>> /\ ret'.op = "generate_report")
          => /\ upstream_log' # <<>>
             /\ pc' = "gr_analyze"
                  => (ret'.ok /\ upstream_log'[Len(upstream_log')] = "ok")
             /\ pc' # "gr_analyze"
                  => (pc' = "idle" /\ ~ret'.ok /\ reviews' = <<>>
                        /\ upstream_log'[Len(upstream_log')] = "error"
                        /\ ret'.error \in {"Error fetching app info",
                                            "Error fetching reviews"})]_vars
  /\ [][(pc = "gr_analyze" /\ reviews = <<>>)
          => (pc' = "idle" /\ ~ret'.ok
                /\ ret'.error = "ValueError: fetch reviews first"
                /\ files' = files)]_vars

\* generate_report, called with neither app_info nor reviews fetched, has
\* fetched both and returned with the report written.
C12_Witness ==
  /\ pc = "idle" /\ ret.op = "generate_report" /\ ret.ok
  /\ upstream_log = <<"ok", "ok">>
  /\ reviews # <<>>
  /\ files[app_id].exists /\ files[app_id].analysis = ret.stats

\* C13 (as claimed): every judgment analyze_sentiment returns has the four
\* keys sentiment, topics, issues and praises, and its topics, issues and
\* praises are lists, whatever the model answered.
C13_JudgmentWellFormed ==
  judgment.done =>
    /\ required_keys \subseteq DOMAIN judgment.value
    /\ \A k \in {"topics", "issues", "praises"} : judgment.value[k].type = "list"

\* The number of reviews of rs with score s, counted one review at a time.
RECURSIVE Occurrences(_, _)
Occurrences(rs, s) ==
  IF rs = <<>> THEN 0
  ELSE (IF Head(rs).score = s THEN 1 ELSE 0) + Occurrences(Tail(rs), s)

RECURSIVE SumOver(_, _)
SumOver(f, keys) ==
  IF keys = {} THEN 0
  ELSE LET k == CHOOSE x \in keys : TRUE IN f[k] + SumOver(f, keys \ {k})

\* C14: the rating_distribution analyze_reviews returns has exactly the
\* scores that occur in the stored list as keys (all within 1..5), each
\* mapped to the number of reviews with that score; the values sum to
\* total_reviews, which is the length of the list.
C14_RatingDistribution ==
  (ret.op = "analyze_reviews" /\ ret.ok) =>
    LET rd == ret.stats.rating_distribution
    IN /\ DOMAIN rd = {reviews[i].score : i \in 1..Len(reviews)}
       /\ DOMAIN rd \subseteq 1..5
       /\ \A s \in DOMAIN rd : rd[s] = Occurrences(reviews, s) /\ rd[s] >= 1
       /\ SumOver(rd, DOMAIN rd) = ret.stats.total_reviews
       /\ ret.stats.total_reviews = Len(reviews)

\* Statistics were returned for two reviews of the same score.
C14_Witness ==
  /\ ret.op = "analyze_reviews" /\ ret.ok
  /\ Len(reviews) = 2 /\ reviews[1].score = reviews[2].score
  /\ reviews[1].score \in DOMAIN ret.stats.rating_distribution
  /\ ret.stats.rating_distribution[reviews[1].score] = 2

\* The number of occurrences of label in a sequence of labels.
RECURSIVE CountIn(_, _)
CountIn(labels, label) ==
  IF labels = <<>> THEN 0
  ELSE (IF Head(labels) = label THEN 1 ELSE 0) + CountIn(Tail(labels), label)

\* The table holds each label the judgments returned under key exactly once,
\* with the number of times it was returned, and nothing else.
Counted(table, key, resp, n) ==
  LET returned == Seen(key, resp, n)
  IN /\ \A i \in 1..Len(table) :
            /\ table[i].count = CountIn(returned, table[i].label)
            /\ table[i].count >= 1
     /\ \A i, j \in 1..Len(table) : table[i].label = table[j].label => i = j
     /\ \A k \in 1..Len(returned) : \E i \in 1..Len(table) : table[i].label = returned[k]

\* C15: in the statistics analyze_reviews returns, the count of a label in
\* common_topics (common_issues, common_praises) is the number of times the
\* label occurs in the topics (issues, praises) of the judgments of all the
\* reviews, twice when it occurs twice in one judgment; only returned labels
\* are in a table, so every count is at least 1.
C15_LabelCounts ==
  (ret.op = "analyze_reviews" /\ ret.ok) =>
    /\ Counted(ret.stats.common_topics, "topics", used, Len(reviews))
    /\ Counted(ret.stats.common_issues, "issues", used, Len(reviews))
    /\ Counted(ret.stats.common_praises, "praises", used, Len(reviews))

\* Two reviews, judged negative (issues: bugs twice) and positive: bugs was
\* returned as a topic by both and is counted twice in both tables.
C15_Witness ==
  /\ ret.op = "analyze_reviews" /\ ret.ok
  /\ used = << <<"{", "neg", "}">>, <<"{", "pos", "}">> >>
  /\ ret.stats.common_topics[1] = [label |-> "bugs", count |-> 2]
  /\ Len(ret.stats.common_topics) = 3
  /\ ret.stats.common_issues = <<[label |-> "bugs", count |-> 2]>>

\* C16 (as claimed): one generate_report run calls the classifier exactly
\* once per stored review, and the sentiment distribution drawn in the chart
\* is the one persisted in the report.
C16_OnePassPerRun ==
  (pc = "idle" /\ ret.op = "generate_report" /\ ret.ok) =>
    /\ classifier_calls = Len(reviews)
    /\ chart.drawn
    /\ chart.sentiment = files[app_id].analysis.sentiment_distribution

\* C17 (as claimed): in a dashboard run, in either mode, total_reviews of
\* the persisted report is at most the review count the user selected.
C17_AtMostSelectedCount ==
  (/\ run.caller = "frontend" /\ run.mode \in {"All Reviews", "Negative Reviews Only"}
   /\ ret.op = "generate_report" /\ ret.ok
   /\ pc \in {"viz_keys", "viz_counts", "idle"})
    => files[app_id].analysis.total_reviews <= run.review_count

\* C18: a fetch_app_info or fetch_reviews call that raises leaves app_info,
\* the stored reviews and the report files as they were; a generate_report
\* call that fails while fetching or aggregating leaves every report file
\* as it was (and a failed fetch inside it leaves what that fetch would
\* have stored as it was).
C18_FailedFetchChangesNothing ==
  /\ [][(ret'.op \in {"fetch_app_info", "fetch_reviews"} /\ ~ret'.ok)
          => (app_info' = app_info /\ reviews' = reviews /\ files' = files)]_vars
  /\ [][(pc \in {"idle", "gr_analyze"} /\ ret'.op = "generate_report" /\ ~ret'.ok)
          => /\ files' = files
             /\ reviews' = reviews
             /\ ret'.error = "Error fetching app info" => app_info' = app_info]_vars

\* generate_report has failed in its aggregation (a judgment whose topics
\* is null) while an earlier report of the same app is on disk.
C18_Witness ==
  /\ pc = "idle" /\ ret.op = "generate_report" /\ ~ret.ok
  /\ ret.error = "TypeError: not iterable"
  /\ classifier_calls = Len(reviews)
  /\ files[app_id].exists

====
